---- MODULE Spec2Model ----
(***************************************************************************)
(* Silverman 4x4 mini-chess: the board legality engine                     *)
(* (src/src/models/board.py, src/src/models/piece.py) and the minimax      *)
(* agent (src/src/agent.py).                                               *)
(*                                                                         *)
(* numpy arrays are objects with identity: `heap` is the sequence of the   *)
(* grid arrays allocated so far and a Board holds the index of its array,  *)
(* so that copying and aliasing are visible in the model.                  *)
(***************************************************************************)
EXTENDS Integers, Sequences, FiniteSets, TLC

VARIABLES heap, boards, hashOrder, turn, agent, best, lastOp

vars == <<heap, boards, hashOrder, turn, agent, best, lastOp>>

(***************************************************************************)
(* Bounds of the model.                                                    *)
(***************************************************************************)
MaxBoards == 2
MaxDepth == 2
\* the number of moves a game of main.py is followed for
MaxPlies == 3

(***************************************************************************)
(* config.py, models/piece.py: constants and piece catalogue.              *)
(***************************************************************************)
SIZE == 4

WHITE == "WHITE"
BLACK == "BLACK"
EMPTY == "EMPTY"
PAWN == "PAWN"
ROOK == "ROOK"
QUEEN == "QUEEN"
KING == "KING"

PieceColor == {BLACK, WHITE, EMPTY}
PieceType == {PAWN, ROOK, QUEEN, KING, EMPTY}
Colors == {WHITE, BLACK}

Piece(piece_color, piece_type) == [piece_color |-> piece_color, piece_type |-> piece_type]

EMPTY_PIECE == Piece(EMPTY, EMPTY)

\* PIECE_VALUES with a queen worth more than half a king
PIECE_VALUES_heavyqueen == [t \in PieceType |->
    CASE t = EMPTY -> 0
      [] t = KING -> 1000
      [] t = QUEEN -> 600
      [] t = ROOK -> 5
      [] t = PAWN -> 1]

PIECE_VALUES == [t \in PieceType |->
    CASE t = EMPTY -> 0
      [] t = KING -> 1000
      [] t = QUEEN -> 9
      [] t = ROOK -> 5
      [] t = PAWN -> 1]

value(piece) == PIECE_VALUES[piece.piece_type]

\* a range one square short of the board
MAX_RANGE_short == SIZE - 2

MAX_RANGE == SIZE - 1

RECURSIVE ConcatAll(_)
ConcatAll(ss) == IF ss = <<>> THEN <<>> ELSE Head(ss) \o ConcatAll(Tail(ss))

pawn_displacements(color) ==
    LET direction == IF color = WHITE THEN -1 ELSE 1
    IN  << <<direction, 0>>, <<direction, -1>>, <<direction, 1>> >>

ray_displacements(directions, max_range) ==
    ConcatAll([i \in 1..Len(directions) |->
        [step \in 1..max_range |->
            <<directions[i][1] * step, directions[i][2] * step>>]])

rook_displacements(max_range) ==
    ray_displacements(<< <<1, 0>>, <<-1, 0>>, <<0, 1>>, <<0, -1>> >>, max_range)

queen_displacements(max_range) ==
    ray_displacements(<< <<1, 0>>, <<-1, 0>>, <<0, 1>>, <<0, -1>>,
                         <<1, 1>>, <<-1, -1>>, <<1, -1>>, <<-1, 1>> >>, max_range)

king_displacements ==
    << <<-1, -1>>, <<-1, 0>>, <<-1, 1>>, <<0, -1>>,
       <<0, 1>>, <<1, -1>>, <<1, 0>>, <<1, 1>> >>

PIECE_DISPLACEMENTS(piece) ==
    CASE piece.piece_type = PAWN /\ piece.piece_color \in Colors ->
            pawn_displacements(piece.piece_color)
      [] piece.piece_type = ROOK /\ piece.piece_color \in Colors ->
            rook_displacements(MAX_RANGE)
      [] piece.piece_type = QUEEN /\ piece.piece_color \in Colors ->
            queen_displacements(MAX_RANGE)
      [] piece.piece_type = KING /\ piece.piece_color \in Colors ->
            king_displacements
      [] OTHER -> <<>>

displacements(piece) == PIECE_DISPLACEMENTS(piece)

\* Piece.possible_moves: the SET of in-bounds squares position + displacement.
possible_moves(piece, position) ==
    LET ds == displacements(piece)
    IN  { <<position[1] + ds[i][1], position[2] + ds[i][2]>> : i \in
            { j \in 1..Len(ds) :
                /\ 0 <= position[1] + ds[j][1] /\ position[1] + ds[j][1] < SIZE
                /\ 0 <= position[2] + ds[j][2] /\ position[2] + ds[j][2] < SIZE } }

Squares == (0..(SIZE - 1)) \X (0..(SIZE - 1))

\* row-major index of a square, and the square of an index
SqIndex(sq) == sq[1] * SIZE + sq[2]
SqOf(k) == <<k \div SIZE, k % SIZE>>

(***************************************************************************)
(* Iteration over a Python set of squares (`for to_pos in piece_moves`,    *)
(* `for pos in threatened_white_positions`).  The order is fixed by the    *)
(* interpreter's hashing, not by the program: hashOrder is the order the   *)
(* run happens to have, chosen once in Init.                               *)
(***************************************************************************)
HashOrders == {"ascending", "descending"}

SetRank(sq) == IF hashOrder = "ascending" THEN SqIndex(sq) ELSE SIZE * SIZE - SqIndex(sq)

RECURSIVE SetIter(_)
SetIter(S) ==
    IF S = {} THEN <<>>
    ELSE LET first == CHOOSE x \in S : \A y \in S : SetRank(x) <= SetRank(y)
         IN  <<first>> \o SetIter(S \ {first})

(***************************************************************************)
(* models/move.py                                                          *)
(***************************************************************************)
Move(piece, from_pos, to_pos, captured_piece) ==
    [piece |-> piece, from_pos |-> from_pos, to_pos |-> to_pos,
     captured_piece |-> captured_piece]

\* Python's None, for Optional[Tuple[int, int]] and Optional[Move]
None == <<>>

(***************************************************************************)
(* models/board.py                                                         *)
(***************************************************************************)
INITIAL_BOARD_STATE == [sq \in Squares |->
    CASE sq[1] = 0 -> Piece(BLACK, <<ROOK, QUEEN, KING, ROOK>>[sq[2] + 1])
      [] sq[1] = 1 -> Piece(BLACK, PAWN)
      [] sq[1] = 2 -> Piece(WHITE, PAWN)
      [] sq[1] = 3 -> Piece(WHITE, <<ROOK, QUEEN, KING, ROOK>>[sq[2] + 1])]

\* The constructor's field initialisation (lines 52-79) for a grid array that
\* is already in the heap at index ref.
NewBoard(ref, size) ==
    [grid |-> ref, size |-> size,
     valid_moves |-> [c \in Colors |-> <<>>],
     threatened_pieces |-> [c \in Colors |-> <<>>],
     threat_scores |-> [c \in Colors |-> 0],
     check_status |-> [c \in Colors |-> FALSE],
     checkmate_status |-> [c \in Colors |-> FALSE],
     stalemate_status |-> [c \in Colors |-> FALSE]]

\* Board.__init__(grid, size): grid is None or <<the index of the caller's
\* array>>.  A given array is used as it is; only the default grid is copied.
\* The result is the heap after the call and the new Board.
Board__init__(h, grid, size) ==
    IF grid # None
    THEN [heap |-> h, board |-> NewBoard(grid[1], size)]
    ELSE [heap |-> Append(h, INITIAL_BOARD_STATE),
          board |-> NewBoard(Len(h) + 1, size)]

\* Board.apply_move, with the aliasing slip `new_grid = self.grid`
apply_move_nocopy(h, b, move) ==
    LET h2 == [h EXCEPT ![b.grid][move.from_pos] = EMPTY_PIECE]
        h3 == [h2 EXCEPT ![b.grid][move.to_pos] = move.piece]
    IN  Board__init__(h3, <<b.grid>>, b.size)

\* Board.apply_move refusing a move that is in neither move list: the copy
\* is returned unchanged
apply_move_checked(h, b, move) ==
    LET new_grid == Len(h) + 1
        h1 == Append(h, h[b.grid])
        h2 == [h1 EXCEPT ![new_grid][move.from_pos] = EMPTY_PIECE]
        h3 == [h2 EXCEPT ![new_grid][move.to_pos] = move.piece]
        listed == \E c \in Colors : \E i \in 1..Len(b.valid_moves[c]) :
                    b.valid_moves[c][i] = move
    IN  Board__init__(IF listed THEN h3 ELSE h1, <<new_grid>>, b.size)

\* Board.apply_move: copy the grid, clear from_pos, put the piece on to_pos,
\* wrap the copy in a new Board (whose derived fields are the constructor's).
apply_move(h, b, move) ==
    LET new_grid == Len(h) + 1
        h1 == Append(h, h[b.grid])
        h2 == [h1 EXCEPT ![new_grid][move.from_pos] = EMPTY_PIECE]
        h3 == [h2 EXCEPT ![new_grid][move.to_pos] = move.piece]
    IN  Board__init__(h3, <<new_grid>>, b.size)

_is_within_bounds(b, row, col) ==
    0 <= row /\ row < b.size /\ 0 <= col /\ col < b.size

_get_opponent_color(color) == IF color = WHITE THEN BLACK ELSE WHITE

\* first king of the colour in the row-major scan, or None
_find_king_position(h, b, color) ==
    LET ks == { k \in 0..(b.size * b.size - 1) :
                  /\ h[b.grid][SqOf(k)].piece_type = KING
                  /\ h[b.grid][SqOf(k)].piece_color = color }
    IN  IF ks = {} THEN None
        ELSE SqOf(CHOOSE k \in ks : \A j \in ks : k <= j)

Sign(to, from) == IF to = from THEN 0 ELSE IF to > from THEN 1 ELSE -1

RECURSIVE PathWalk(_, _, _, _, _, _, _)
PathWalk(g, r, c, dr, dc, to_r, to_c) ==
    IF <<r, c>> = <<to_r, to_c>> THEN TRUE
    ELSE IF g[<<r, c>>].piece_type # EMPTY THEN FALSE
    ELSE PathWalk(g, r + dr, c + dc, dr, dc, to_r, to_c)

\* _is_path_clear that looks at no square
_is_path_clear_unseen(h, b, from_r, from_c, to_r, to_c) == TRUE

_is_path_clear(h, b, from_r, from_c, to_r, to_c) ==
    LET dr == Sign(to_r, from_r)
        dc == Sign(to_c, from_c)
    IN  PathWalk(h[b.grid], from_r + dr, from_c + dc, dr, dc, to_r, to_c)

Abs(x) == IF x < 0 THEN -x ELSE x

\* _can_pawn_attack counting the square straight ahead as attacked
_can_pawn_attack_forward(h, b, piece, from_r, from_c, to_r, to_c) ==
    LET forward == IF piece.piece_color = WHITE THEN -1 ELSE 1
        dr == to_r - from_r
        dc == to_c - from_c
    IN  dr = forward /\ Abs(dc) <= 1

_can_pawn_attack(h, b, piece, from_r, from_c, to_r, to_c) ==
    LET forward == IF piece.piece_color = WHITE THEN -1 ELSE 1
        dr == to_r - from_r
        dc == to_c - from_c
    IN  dr = forward /\ dc # 0 /\ Abs(dc) = 1

_can_rook_attack(h, b, piece, from_r, from_c, to_r, to_c) ==
    IF <<to_r, to_c>> \notin possible_moves(piece, <<from_r, from_c>>) THEN FALSE
    ELSE _is_path_clear(h, b, from_r, from_c, to_r, to_c)

_can_queen_attack(h, b, piece, from_r, from_c, to_r, to_c) ==
    IF <<to_r, to_c>> \notin possible_moves(piece, <<from_r, from_c>>) THEN FALSE
    ELSE _is_path_clear(h, b, from_r, from_c, to_r, to_c)

_can_king_attack(h, b, piece, from_r, from_c, to_r, to_c) ==
    <<to_r, to_c>> \in possible_moves(piece, <<from_r, from_c>>)

_can_attack(h, b, from_r, from_c, to_r, to_c, piece) ==
    CASE piece.piece_type = PAWN -> _can_pawn_attack(h, b, piece, from_r, from_c, to_r, to_c)
      [] piece.piece_type = ROOK -> _can_rook_attack(h, b, piece, from_r, from_c, to_r, to_c)
      [] piece.piece_type = QUEEN -> _can_queen_attack(h, b, piece, from_r, from_c, to_r, to_c)
      [] piece.piece_type = KING -> _can_king_attack(h, b, piece, from_r, from_c, to_r, to_c)
      [] OTHER -> FALSE

\* _is_position_threatened without the colour test of line 229: a piece of
\* either colour counts as an attacker
_is_position_threatened_anycolor(h, b, row, col, by_color) ==
    \E r \in 0..(b.size - 1), c \in 0..(b.size - 1) :
        LET piece == h[b.grid][<<r, c>>]
        IN  /\ piece.piece_type # EMPTY
            /\ _can_attack(h, b, r, c, row, col, piece)

\* by_color is the colour of the king standing on (row, col)
_is_position_threatened(h, b, row, col, by_color) ==
    LET opponent_color == _get_opponent_color(by_color)
    IN  \E r \in 0..(b.size - 1), c \in 0..(b.size - 1) :
            LET piece == h[b.grid][<<r, c>>]
            IN  /\ piece.piece_type # EMPTY
                /\ piece.piece_color = opponent_color
                /\ _can_attack(h, b, r, c, row, col, piece)

\* Board.is_check with the `if not king_pos` guard answering True
is_check_nokingtrue(h, b, color) ==
    LET king_pos == _find_king_position(h, b, color)
    IN  IF king_pos = None THEN TRUE
        ELSE _is_position_threatened(h, b, king_pos[1], king_pos[2], color)

is_check(h, b, color) ==
    LET king_pos == _find_king_position(h, b, color)
    IN  IF king_pos = None THEN FALSE
        ELSE _is_position_threatened(h, b, king_pos[1], king_pos[2], color)

\* _is_valid_pawn_move with one rule for the three destinations
_is_valid_pawn_move_anydest(h, b, piece, target, from_pos, to_pos) ==
    target.piece_color # piece.piece_color

_is_valid_pawn_move(h, b, piece, target, from_pos, to_pos) ==
    LET dc == to_pos[2] - from_pos[2]
    IN  IF dc = 0 THEN target.piece_type = EMPTY
        ELSE target.piece_type # EMPTY /\ target.piece_color # piece.piece_color

_is_valid_rook_move(h, b, piece, target, from_pos, to_pos) ==
    IF target.piece_color = piece.piece_color THEN FALSE
    ELSE _is_path_clear(h, b, from_pos[1], from_pos[2], to_pos[1], to_pos[2])

_is_valid_queen_move(h, b, piece, target, from_pos, to_pos) ==
    IF target.piece_color = piece.piece_color THEN FALSE
    ELSE _is_path_clear(h, b, from_pos[1], from_pos[2], to_pos[1], to_pos[2])

\* _is_valid_king_move without the same-colour test
_is_valid_king_move_anytarget(h, b, piece, target, from_pos, to_pos) == TRUE

_is_valid_king_move(h, b, piece, target, from_pos, to_pos) ==
    target.piece_color # piece.piece_color

_is_valid_piece_move(h, b, piece, target, from_pos, to_pos) ==
    CASE piece.piece_type = PAWN -> _is_valid_pawn_move(h, b, piece, target, from_pos, to_pos)
      [] piece.piece_type = ROOK -> _is_valid_rook_move(h, b, piece, target, from_pos, to_pos)
      [] piece.piece_type = QUEEN -> _is_valid_queen_move(h, b, piece, target, from_pos, to_pos)
      [] piece.piece_type = KING -> _is_valid_king_move(h, b, piece, target, from_pos, to_pos)
      [] OTHER -> FALSE

\* _does_move_leave_king_in_check without the test (every move passes)
_does_move_leave_king_in_check_never(h, b, move, color) == FALSE

_does_move_leave_king_in_check(h, b, move, color) ==
    LET r == apply_move(h, b, move)
    IN  is_check(r.heap, r.board, color)

\* the moves of the piece on (r, c), in the order its destination set iterates
MovesOfSquare(h, b, color, r, c) ==
    LET piece == h[b.grid][<<r, c>>]
    IN  IF piece.piece_type = EMPTY \/ piece.piece_color # color THEN <<>>
        ELSE LET piece_moves == SetIter(possible_moves(piece, <<r, c>>))
                 cand == [i \in 1..Len(piece_moves) |->
                            Move(piece, <<r, c>>, piece_moves[i],
                                 h[b.grid][piece_moves[i]])]
                 Keep(m) ==
                    /\ _is_within_bounds(b, m.to_pos[1], m.to_pos[2])
                    /\ _is_valid_piece_move(h, b, piece, m.captured_piece,
                                            m.from_pos, m.to_pos)
                    /\ ~_does_move_leave_king_in_check(h, b, m, color)
             IN  SelectSeq(cand, Keep)

get_valid_moves_for_color(h, b, color) ==
    ConcatAll([k \in 1..(b.size * b.size) |->
        MovesOfSquare(h, b, color, SqOf(k - 1)[1], SqOf(k - 1)[2])])

RECURSIVE SumSeq(_)
SumSeq(xs) == IF xs = <<>> THEN 0 ELSE Head(xs) + SumSeq(Tail(xs))

\* the set of to_pos of all the moves of a move list (the EMPTY tests of
\* lines 119 and 123 dropped)
CapturePositions_all(moves) == { moves[i].to_pos : i \in 1..Len(moves) }

\* the set of to_pos of the capturing moves of a move list (lines 115-124)
CapturePositions(moves) ==
    { moves[i].to_pos : i \in { j \in 1..Len(moves) :
                                  moves[j].captured_piece.piece_type # EMPTY } }

\* compute_game_state with stalemate derived from the move count alone
\* (`not is_check_*` dropped in lines 110-111)
compute_game_state_nocheckterm(h, b) ==
    LET valid_moves_white == get_valid_moves_for_color(h, b, WHITE)
        valid_moves_black == get_valid_moves_for_color(h, b, BLACK)
        is_check_white == is_check(h, b, WHITE)
        is_check_black == is_check(h, b, BLACK)
        threatened_black_positions == SetIter(CapturePositions(valid_moves_white))
        threatened_white_positions == SetIter(CapturePositions(valid_moves_black))
        threatened_pieces == [c \in Colors |->
            IF c = WHITE
            THEN [i \in 1..Len(threatened_white_positions) |->
                    h[b.grid][threatened_white_positions[i]]]
            ELSE [i \in 1..Len(threatened_black_positions) |->
                    h[b.grid][threatened_black_positions[i]]]]
    IN  [b EXCEPT
            !.valid_moves = [c \in Colors |->
                IF c = WHITE THEN valid_moves_white ELSE valid_moves_black],
            !.check_status = [c \in Colors |->
                IF c = WHITE THEN is_check_white ELSE is_check_black],
            !.checkmate_status = [c \in Colors |->
                IF c = WHITE THEN is_check_white /\ Len(valid_moves_white) = 0
                ELSE is_check_black /\ Len(valid_moves_black) = 0],
            !.stalemate_status = [c \in Colors |->
                IF c = WHITE THEN Len(valid_moves_white) = 0
                ELSE Len(valid_moves_black) = 0],
            !.threatened_pieces = threatened_pieces,
            !.threat_scores = [c \in Colors |->
                SumSeq([i \in 1..Len(threatened_pieces[c]) |->
                            value(threatened_pieces[c][i])])]]

\* Board.compute_game_state: the board with its derived fields assigned
compute_game_state(h, b) ==
    LET valid_moves_white == get_valid_moves_for_color(h, b, WHITE)
        valid_moves_black == get_valid_moves_for_color(h, b, BLACK)
        is_check_white == is_check(h, b, WHITE)
        is_check_black == is_check(h, b, BLACK)
        threatened_black_positions == SetIter(CapturePositions(valid_moves_white))
        threatened_white_positions == SetIter(CapturePositions(valid_moves_black))
        threatened_pieces == [c \in Colors |->
            IF c = WHITE
            THEN [i \in 1..Len(threatened_white_positions) |->
                    h[b.grid][threatened_white_positions[i]]]
            ELSE [i \in 1..Len(threatened_black_positions) |->
                    h[b.grid][threatened_black_positions[i]]]]
    IN  [b EXCEPT
            !.valid_moves = [c \in Colors |->
                IF c = WHITE THEN valid_moves_white ELSE valid_moves_black],
            !.check_status = [c \in Colors |->
                IF c = WHITE THEN is_check_white ELSE is_check_black],
            !.checkmate_status = [c \in Colors |->
                IF c = WHITE THEN is_check_white /\ Len(valid_moves_white) = 0
                ELSE is_check_black /\ Len(valid_moves_black) = 0],
            !.stalemate_status = [c \in Colors |->
                IF c = WHITE THEN ~is_check_white /\ Len(valid_moves_white) = 0
                ELSE ~is_check_black /\ Len(valid_moves_black) = 0],
            !.threatened_pieces = threatened_pieces,
            !.threat_scores = [c \in Colors |->
                SumSeq([i \in 1..Len(threatened_pieces[c]) |->
                            value(threatened_pieces[c][i])])]]

(***************************************************************************)
(* agent.py: MinimaxAgent                                                  *)
(***************************************************************************)
\* math.inf: above every score evaluate can return
inf == 1000000

Max(a, b) == IF a >= b THEN a ELSE b
Min(a, b) == IF a <= b THEN a ELSE b

\* the default of the depth parameter of MinimaxAgent.__init__
DEFAULT_DEPTH == 100

\* MinimaxAgent.__init__(depth)
MinimaxAgent__init__(depth) == [depth |-> depth, color |-> BLACK]

\* models.piece.SILVERMAN_DEFAULT_START_SCORES, imported by agent.py: the
\* material each colour starts with.
SILVERMAN_DEFAULT_START_SCORES == [c \in Colors |->
    SumSeq([k \in 1..(SIZE * SIZE) |->
        IF INITIAL_BOARD_STATE[SqOf(k - 1)].piece_color = c
        THEN value(INITIAL_BOARD_STATE[SqOf(k - 1)]) ELSE 0])]

\* center_positions with the two squares of Black's half only
center_positions_upper == { <<1, 1>>, <<1, 2>> }

center_positions == { <<1, 1>>, <<1, 2>>, <<2, 1>>, <<2, 2>> }

evaluate(self, h, board) ==
    LET g == h[board.grid]
        presence_scores == [c \in Colors |->
            SumSeq([k \in 1..(board.size * board.size) |->
                IF g[SqOf(k - 1)].piece_type # EMPTY /\ g[SqOf(k - 1)].piece_color = c
                THEN value(g[SqOf(k - 1)]) ELSE 0])]
        center_scores == [c \in Colors |->
            SumSeq([k \in 1..(board.size * board.size) |->
                IF /\ g[SqOf(k - 1)].piece_type # EMPTY
                   /\ g[SqOf(k - 1)].piece_color = c
                   /\ SqOf(k - 1) \in center_positions
                THEN value(g[SqOf(k - 1)]) ELSE 0])]
        absence_scores == [c \in Colors |->
            SILVERMAN_DEFAULT_START_SCORES[c] - presence_scores[c]]
        threatened_reward == [c \in Colors |->
            IF c = WHITE THEN board.threat_scores[BLACK]
            ELSE board.threat_scores[WHITE]]
    IN  (presence_scores[BLACK] + absence_scores[WHITE]
            + center_scores[BLACK] + threatened_reward[BLACK])
        - (presence_scores[WHITE] + absence_scores[BLACK]
            + center_scores[WHITE] + threatened_reward[WHITE])

\* order_moves.move_value: a Piece object is always true in `if
\* move.captured_piece`, only None is not
move_value(move) ==
    IF move.captured_piece # None
    THEN value(move.captured_piece) * 10 - value(move.piece)
    ELSE 0

\* sorted(..., reverse=True) is stable: insert each move after the moves
\* whose key is greater or equal
RECURSIVE InsertByKey(_, _)
InsertByKey(sorted, m) ==
    IF sorted = <<>> THEN <<m>>
    ELSE IF move_value(Head(sorted)) >= move_value(m)
         THEN <<Head(sorted)>> \o InsertByKey(Tail(sorted), m)
         ELSE <<m>> \o sorted

RECURSIVE SortedFrom(_, _, _)
SortedFrom(moves, i, acc) ==
    IF i > Len(moves) THEN acc
    ELSE SortedFrom(moves, i + 1, InsertByKey(acc, moves[i]))

order_moves(self, board, moves) == SortedFrom(moves, 1, <<>>)

\* minimax: the colour whose turn a ply takes it to be, and the other one
current_color(self, maximizing_player) ==
    IF maximizing_player THEN self.color ELSE WHITE

opponent_color(self, maximizing_player) ==
    IF maximizing_player THEN WHITE ELSE self.color

\* minimax: the list `moves` a ply enumerates and applies
minimax_moves(self, board, maximizing_player) ==
    IF maximizing_player THEN board.valid_moves[self.color]
    ELSE board.valid_moves[WHITE]

\* the remaining depth that stays the same from call to call
next_depth_same(depth) == depth

\* the remaining depth a call of minimax is given by its caller: `depth - 1`
\* in the two loops (lines 185, 214), `self.depth - 1` at the root (119)
next_depth(depth) == depth - 1

RECURSIVE minimax(_, _, _, _, _, _, _)
RECURSIVE MaxLoop(_, _, _, _, _, _, _, _, _)
RECURSIVE MinLoop(_, _, _, _, _, _, _, _, _)

\* the maximizing loop with the cutoff test of line 190 turned round
\* (`alpha <= beta`): it stops after the first move
MaxLoop_firstcut(self, h, board, moves, i, max_eval, alpha, beta, depth) ==
    IF i > Len(moves) THEN max_eval
    ELSE LET staged == apply_move(h, board, moves[i])
             staged_board == staged.board
             staged_eval ==
                IF /\ staged_board.valid_moves[WHITE] = <<>>
                   /\ staged_board.check_status[WHITE]
                THEN inf
                ELSE minimax(self, staged.heap, staged_board, FALSE, alpha, beta,
                             next_depth(depth))
             max_eval2 == Max(max_eval, staged_eval)
             alpha2 == Max(alpha, max_eval2)
         IN  IF alpha2 <= beta THEN max_eval2
             ELSE MaxLoop(self, h, board, moves, i + 1, max_eval2, alpha2, beta, depth)

\* the `for move in moves` loop of the maximizing branch from index i on
MaxLoop(self, h, board, moves, i, max_eval, alpha, beta, depth) ==
    IF i > Len(moves) THEN max_eval
    ELSE LET staged == apply_move(h, board, moves[i])
             staged_board == staged.board
             staged_eval ==
                IF /\ staged_board.valid_moves[WHITE] = <<>>
                   /\ staged_board.check_status[WHITE]
                THEN inf
                ELSE minimax(self, staged.heap, staged_board, FALSE, alpha, beta,
                             next_depth(depth))
             max_eval2 == Max(max_eval, staged_eval)
             alpha2 == Max(alpha, max_eval2)
         IN  IF beta <= alpha2 THEN max_eval2
             ELSE MaxLoop(self, h, board, moves, i + 1, max_eval2, alpha2, beta, depth)

\* the `for move in moves` loop of the minimizing branch from index i on
MinLoop(self, h, board, moves, i, min_eval, alpha, beta, depth) ==
    IF i > Len(moves) THEN min_eval
    ELSE LET staged == apply_move(h, board, moves[i])
             staged_board == staged.board
             staged_eval ==
                IF /\ staged_board.valid_moves[self.color] = <<>>
                   /\ staged_board.check_status[self.color]
                THEN -inf
                ELSE minimax(self, staged.heap, staged_board, TRUE, alpha, beta,
                             next_depth(depth))
             min_eval2 == Min(min_eval, staged_eval)
             beta2 == Min(beta, min_eval2)
         IN  IF beta2 <= alpha THEN min_eval2
             ELSE MinLoop(self, h, board, moves, i + 1, min_eval2, alpha, beta2, depth)

minimax(self, h, board, maximizing_player, alpha, beta, depth) ==
    IF depth = 0 THEN evaluate(self, h, board)
    ELSE IF board.valid_moves[current_color(self, maximizing_player)] = <<>>
    THEN IF board.check_status[current_color(self, maximizing_player)]
         THEN (IF maximizing_player THEN -inf ELSE inf)
         ELSE 0
    ELSE IF board.valid_moves[opponent_color(self, maximizing_player)] = <<>>
    THEN IF board.check_status[opponent_color(self, maximizing_player)]
         THEN (IF maximizing_player THEN inf ELSE -inf)
         ELSE 0
    ELSE IF maximizing_player
    THEN MaxLoop(self, h, board, minimax_moves(self, board, TRUE), 1,
                 -inf, alpha, beta, depth)
    ELSE MinLoop(self, h, board, minimax_moves(self, board, FALSE), 1,
                 inf, alpha, beta, depth)

RECURSIVE RootLoop(_, _, _, _, _, _, _)

\* the root loop replacing best_move on `score >= best_score`
RootLoop_lasttie(self, h, board, moves, i, best_score, best_move) ==
    IF i > Len(moves) THEN best_move
    ELSE LET staged == apply_move(h, board, moves[i])
             staged_board == staged.board
             score ==
                IF /\ staged_board.valid_moves[WHITE] = <<>>
                   /\ staged_board.check_status[WHITE]
                THEN inf
                ELSE minimax(self, staged.heap, staged_board, FALSE, -inf, inf,
                             next_depth(self.depth))
         IN  IF score >= best_score
             THEN RootLoop(self, h, board, moves, i + 1, score, moves[i])
             ELSE RootLoop(self, h, board, moves, i + 1, best_score, best_move)

\* the root loop of get_best_move from index i on: alpha and beta keep their
\* initial values, a move replaces best_move on a strictly greater score
RootLoop(self, h, board, moves, i, best_score, best_move) ==
    IF i > Len(moves) THEN best_move
    ELSE LET staged == apply_move(h, board, moves[i])
             staged_board == staged.board
             score ==
                IF /\ staged_board.valid_moves[WHITE] = <<>>
                   /\ staged_board.check_status[WHITE]
                THEN inf
                ELSE minimax(self, staged.heap, staged_board, FALSE, -inf, inf,
                             next_depth(self.depth))
         IN  IF score > best_score
             THEN RootLoop(self, h, board, moves, i + 1, score, moves[i])
             ELSE RootLoop(self, h, board, moves, i + 1, best_score, best_move)

\* get_best_move with best_score starting at 0 instead of -inf
get_best_move_zero(self, h, board) ==
    LET all_maximizer_moves == order_moves(self, board, board.valid_moves[self.color])
    IN  RootLoop(self, h, board, all_maximizer_moves, 1, 0, None)

get_best_move(self, h, board) ==
    LET all_maximizer_moves == order_moves(self, board, board.valid_moves[self.color])
    IN  RootLoop(self, h, board, all_maximizer_moves, 1, -inf, None)

(***************************************************************************)
(* The grids callers build (benchmark.py create_empty_board / set_piece,   *)
(* the np.full grids of tests/).                                           *)
(***************************************************************************)
create_empty_board == [sq \in Squares |-> EMPTY_PIECE]

set_piece(grid, row, col, color, piece_type) ==
    [grid EXCEPT ![<<row, col>>] = Piece(color, piece_type)]

RECURSIVE SetPieces(_, _)
SetPieces(grid, ps) ==
    IF ps = <<>> THEN grid
    ELSE SetPieces(set_piece(grid, Head(ps)[1], Head(ps)[2], Head(ps)[3], Head(ps)[4]),
                   Tail(ps))

\* tests/verify_states.py test_checkmate_white
GridCheckmateWhite == SetPieces(create_empty_board,
    << <<0, 0, WHITE, KING>>, <<0, 3, BLACK, ROOK>>, <<1, 3, BLACK, ROOK>>,
       <<3, 3, BLACK, KING>> >>)

\* tests/verify_states.py test_stalemate_white
GridStalemateWhite == SetPieces(create_empty_board,
    << <<0, 0, WHITE, KING>>, <<1, 3, BLACK, ROOK>>, <<3, 1, BLACK, ROOK>>,
       <<3, 3, BLACK, KING>> >>)

\* tests/repro_checkmate.py: no black king
GridNoBlackKing == SetPieces(create_empty_board,
    << <<0, 0, WHITE, KING>>, <<0, 3, BLACK, ROOK>>, <<1, 3, BLACK, ROOK>> >>)

\* benchmark.py "Capture Free Queen"
GridFreeQueen == SetPieces(create_empty_board,
    << <<1, 1, WHITE, QUEEN>>, <<0, 0, WHITE, KING>>, <<3, 3, BLACK, KING>>,
       <<2, 1, BLACK, ROOK>> >>)

\* Black mates with the rook on (0,0); the rook or the king can take a pawn
GridMateInOne == SetPieces(create_empty_board,
    << <<3, 0, WHITE, KING>>, <<3, 2, BLACK, KING>>, <<2, 1, WHITE, PAWN>>,
       <<0, 1, BLACK, ROOK>> >>)

\* the black rook is pinned to its king by the white rook and checks the
\* white king
GridPinnedAttacker == SetPieces(create_empty_board,
    << <<0, 0, BLACK, KING>>, <<0, 1, BLACK, ROOK>>, <<0, 3, WHITE, ROOK>>,
       <<3, 1, WHITE, KING>> >>)

\* two white kings, the second one attacked
GridTwoWhiteKings == SetPieces(create_empty_board,
    << <<0, 0, WHITE, KING>>, <<3, 0, WHITE, KING>>, <<3, 3, BLACK, ROOK>>,
       <<1, 2, BLACK, KING>> >>)

\* the black rook can take a white queen that no white piece defends
GridUndefendedQueen == SetPieces(create_empty_board,
    << <<1, 1, WHITE, QUEEN>>, <<0, 3, WHITE, KING>>, <<3, 1, BLACK, ROOK>>,
       <<3, 2, BLACK, KING>> >>)

\* the same with the colours exchanged: the white rook can take the queen
GridUndefendedBlackQueen == SetPieces(create_empty_board,
    << <<2, 1, BLACK, QUEEN>>, <<3, 3, BLACK, KING>>, <<0, 1, WHITE, ROOK>>,
       <<0, 2, WHITE, KING>> >>)

\* tests/repro_user_issue.py test_user_scenario: the white queen checks the
\* black king
GridUserScenario == SetPieces(create_empty_board,
    << <<0, 0, BLACK, ROOK>>, <<0, 3, BLACK, ROOK>>, <<1, 0, BLACK, PAWN>>,
       <<1, 1, BLACK, KING>>, <<1, 2, BLACK, PAWN>>, <<1, 3, BLACK, PAWN>>,
       <<2, 0, WHITE, QUEEN>>, <<2, 1, WHITE, PAWN>>, <<2, 3, WHITE, PAWN>>,
       <<3, 0, WHITE, ROOK>>, <<3, 2, WHITE, KING>>, <<3, 3, WHITE, ROOK>> >>)

CustomGrids == { GridCheckmateWhite, GridStalemateWhite, GridNoBlackKing,
                 GridFreeQueen, GridMateInOne, GridPinnedAttacker,
                 GridTwoWhiteKings }

FreeCaptureGrids == { GridUndefendedQueen, GridUndefendedBlackQueen }

\* the positions tests/ and benchmark.py build a Board from
PositionGrids == CustomGrids \cup FreeCaptureGrids \cup { GridUserScenario }

\* moves a caller can hand to apply_move that no move list contains
OtherMoves == { Move(Piece(WHITE, QUEEN), <<3, 3>>, <<0, 0>>, None),
                Move(Piece(BLACK, PAWN), <<1, 1>>, <<1, 1>>, None),
                Move(Piece(BLACK, ROOK), <<0, 3>>, <<3, 0>>, None) }

SeqRange(xs) == { xs[i] : i \in 1..Len(xs) }

(***************************************************************************)
(* The state machine: a caller that builds a Board, derives its state,     *)
(* applies a move to the Board it holds and keeps the result               *)
(* (`board = board.apply_move(move)`, `turn` passing to the other colour), *)
(* and asks an agent for its move.  Earlier Boards stay in `boards`.       *)
(***************************************************************************)
NoOp == [op |-> "none", board |-> 0, src |-> 0, move |-> None]

Init ==
    /\ heap = <<>>
    /\ boards = <<>>
    /\ hashOrder \in HashOrders
    /\ turn = WHITE
    /\ agent = None
    /\ best = None
    /\ lastOp = NoOp

\* board = Board(); turn = PieceColor.WHITE
BoardDefault ==
    /\ boards = <<>>
    /\ agent = None
    /\ LET r == Board__init__(heap, None, SIZE)
       IN  /\ heap' = r.heap
           /\ boards' = <<r.board>>
    /\ turn' = WHITE
    /\ lastOp' = [op |-> "Board", board |-> 1, src |-> 0, move |-> None]
    /\ UNCHANGED <<hashOrder, agent, best>>

\* grid = ...; board = Board(grid=grid), a position with Black to move
BoardCustom(grid) ==
    /\ boards = <<>>
    /\ agent = None
    /\ LET h1 == Append(heap, grid)
           r == Board__init__(h1, <<Len(h1)>>, SIZE)
       IN  /\ heap' = r.heap
           /\ boards' = <<r.board>>
    /\ turn' = BLACK
    /\ lastOp' = [op |-> "Board", board |-> 1, src |-> 0, move |-> None]
    /\ UNCHANGED <<hashOrder, agent, best>>

\* board.compute_game_state()
ComputeGameState ==
    /\ agent = None
    /\ boards # <<>>
    /\ LET i == Len(boards)
       IN  /\ boards' = [boards EXCEPT ![i] = compute_game_state(heap, boards[i])]
           /\ lastOp' = [op |-> "compute_game_state", board |-> i, src |-> 0,
                         move |-> None]
    /\ UNCHANGED <<heap, hashOrder, turn, agent, best>>

\* board = board.apply_move(move); turn = the other colour
ApplyMove(move) ==
    /\ agent = None
    /\ boards # <<>>
    /\ Len(boards) < MaxBoards
    /\ LET i == Len(boards)
           r == apply_move(heap, boards[i], move)
       IN  /\ heap' = r.heap
           /\ boards' = Append(boards, r.board)
           /\ lastOp' = [op |-> "apply_move", board |-> i + 1, src |-> i,
                         move |-> move]
    /\ turn' = _get_opponent_color(turn)
    /\ UNCHANGED <<hashOrder, agent, best>>

\* agent = MinimaxAgent(depth=depth)
NewAgent(depth) ==
    /\ agent = None
    /\ boards # <<>>
    /\ agent' = MinimaxAgent__init__(depth)
    /\ lastOp' = [op |-> "MinimaxAgent", board |-> 0, src |-> 0, move |-> None]
    /\ UNCHANGED <<heap, boards, hashOrder, turn, best>>

\* agent.color = color
SetAgentColor(color) ==
    /\ agent # None
    /\ best = None
    /\ agent' = [agent EXCEPT !.color = color]
    /\ lastOp' = [op |-> "agent.color", board |-> 0, src |-> 0, move |-> None]
    /\ UNCHANGED <<heap, boards, hashOrder, turn, best>>

\* best_move = agent.get_best_move(board)
GetBestMove ==
    /\ agent # None
    /\ LET i == Len(boards)
       IN  /\ best' = [board |-> i, move |-> get_best_move(agent, heap, boards[i])]
           /\ lastOp' = [op |-> "get_best_move", board |-> i, src |-> 0,
                         move |-> None]
    /\ UNCHANGED <<heap, boards, hashOrder, turn, agent>>

\* the moves the caller applies: a move of the colour to move from the
\* Board's move list, or a move of its own making
CallerMoves ==
    IF boards = <<>> THEN {}
    ELSE SeqRange(boards[Len(boards)].valid_moves[turn]) \cup OtherMoves

Next ==
    \/ BoardDefault
    \/ \E grid \in CustomGrids : BoardCustom(grid)
    \/ ComputeGameState
    \/ \E move \in CallerMoves : ApplyMove(move)
    \/ \E depth \in 1..MaxDepth : NewAgent(depth)
    \/ GetBestMove

Spec == Init /\ [][Next]_vars

\* The same caller with the agent used as its interface allows: the colour
\* attribute assigned either colour, a depth of 0, and free-capture
\* positions for either colour.
NextAssigned ==
    \/ Next
    \/ \E grid \in FreeCaptureGrids : BoardCustom(grid)
    \/ NewAgent(0)
    \/ \E color \in Colors : SetAgentColor(color)

SpecAssigned == Init /\ [][NextAssigned]_vars

\* A test or a benchmark scenario: one Board is built from the starting grid
\* or from a position, its state is derived, and an agent of either colour
\* is asked for its move on it; no move is applied.
NextPositions ==
    \/ BoardDefault
    \/ \E grid \in PositionGrids : BoardCustom(grid)
    \/ ComputeGameState
    \/ \E depth \in 1..MaxDepth : NewAgent(depth)
    \/ \E color \in Colors : SetAgentColor(color)
    \/ GetBestMove

SpecPositions == Init /\ [][NextPositions]_vars

(***************************************************************************)
(* main.py: the command-line game.  White's moves are typed in, Black's    *)
(* are the agent's.  Each turn of the loop is one step; the Boards the     *)
(* variable `board` held before stay in `boards`.                          *)
(***************************************************************************)
\* the tests of lines 81-91 that end the loop
GameOver(board) ==
    \/ board.checkmate_status[WHITE]
    \/ board.checkmate_status[BLACK]
    \/ board.stalemate_status[WHITE] \/ board.stalemate_status[BLACK]

\* lines 62-66: board = Board(); board.compute_game_state();
\* agent = MinimaxAgent(); turn = PieceColor.WHITE
MainStart ==
    /\ boards = <<>>
    /\ agent = None
    /\ \E board \in { Board__init__(heap, None, SIZE) } :
            /\ heap' = board.heap
            /\ boards' = <<compute_game_state(board.heap, board.board)>>
    /\ agent' = MinimaxAgent__init__(DEFAULT_DEPTH)
    /\ turn' = WHITE
    /\ lastOp' = [op |-> "main", board |-> 1, src |-> 0, move |-> None]
    /\ UNCHANGED <<hashOrder, best>>

\* the game goes on: main has started, the loop has not ended on lines
\* 81-91, and the game is followed for MaxPlies moves
InPlay ==
    /\ lastOp.op \in {"main", "white_turn", "black_turn", "agent_turn"}
    /\ ~GameOver(boards[Len(boards)])
    /\ Len(boards) <= MaxPlies

\* lines 98-142, White's turn with the typed move found in
\* board.valid_moves[WHITE] (anything else asks again): the move is applied,
\* refused if the new Board's check_status[WHITE] is set, the state of the
\* new Board is derived and the turn passes to Black
WhiteTurn(selected_move) ==
    /\ InPlay
    /\ turn = WHITE
    /\ \E next_board \in { apply_move(heap, boards[Len(boards)], selected_move) } :
            /\ ~next_board.board.check_status[WHITE]
            /\ heap' = next_board.heap
            /\ boards' = Append(boards,
                    compute_game_state(next_board.heap, next_board.board))
    /\ lastOp' = [op |-> "white_turn", board |-> Len(boards) + 1,
                  src |-> Len(boards), move |-> selected_move]
    /\ turn' = BLACK
    /\ UNCHANGED <<hashOrder, agent, best>>

\* lines 144-159, the agent's turn: the move get_best_move returns, if it
\* returns one, is applied and the state of the new Board derived; the turn
\* passes to White in either case
AgentTurn ==
    /\ InPlay
    /\ turn = BLACK
    /\ \E best_move \in { get_best_move(agent, heap, boards[Len(boards)]) } :
            /\ best' = [board |-> Len(boards), move |-> best_move]
            /\ IF best_move # None
               THEN /\ \E next_board \in
                            { apply_move(heap, boards[Len(boards)], best_move) } :
                        /\ heap' = next_board.heap
                        /\ boards' = Append(boards,
                                compute_game_state(next_board.heap, next_board.board))
                    /\ lastOp' = [op |-> "agent_turn", board |-> Len(boards) + 1,
                                  src |-> Len(boards), move |-> best_move]
               ELSE /\ UNCHANGED <<heap, boards>>
                    /\ lastOp' = [op |-> "agent_turn", board |-> Len(boards),
                                  src |-> Len(boards), move |-> None]
    /\ turn' = WHITE
    /\ UNCHANGED <<hashOrder, agent>>

\* Black's turn taken by a player in the agent's place: lines 156-157 with
\* any move of board.valid_moves[BLACK]
BlackTurn(move) ==
    /\ InPlay
    /\ turn = BLACK
    /\ \E next_board \in { apply_move(heap, boards[Len(boards)], move) } :
            /\ heap' = next_board.heap
            /\ boards' = Append(boards,
                    compute_game_state(next_board.heap, next_board.board))
    /\ lastOp' = [op |-> "black_turn", board |-> Len(boards) + 1,
                  src |-> Len(boards), move |-> move]
    /\ turn' = WHITE
    /\ UNCHANGED <<hashOrder, agent, best>>

\* the moves of colour c the current Board lists
ListedMoves(c) ==
    IF boards = <<>> THEN {} ELSE SeqRange(boards[Len(boards)].valid_moves[c])

NextGame ==
    \/ MainStart
    \/ \E selected_move \in ListedMoves(WHITE) : WhiteTurn(selected_move)
    \/ AgentTurn
    \/ \E move \in ListedMoves(BLACK) : BlackTurn(move)

SpecGame == Init /\ [][NextGame]_vars

(***************************************************************************)
(* Properties.  The attack relation below is written from the rules of     *)
(* the game, not from the code's displacement tables.                      *)
(***************************************************************************)
GridOf(i) == heap[boards[i].grid]

Other(c) == IF c = WHITE THEN BLACK ELSE WHITE

KingSquares(g, c) ==
    { sq \in Squares : g[sq].piece_type = KING /\ g[sq].piece_color = c }

\* the squares strictly between two squares of one row, column or diagonal
Between(from, to) ==
    LET dr == to[1] - from[1]
        dc == to[2] - from[2]
        n == Max(Abs(dr), Abs(dc))
    IN  { sq \in Squares : \E k \in 1..(n - 1) :
            sq = <<from[1] + k * (dr \div n), from[2] + k * (dc \div n)>> }

\* raw attack reachability of the piece on `from`: no regard for the safety
\* of the attacker's own king
RawAttacks(g, from, to) ==
    LET p == g[from]
        dr == to[1] - from[1]
        dc == to[2] - from[2]
        straight == (dr = 0) # (dc = 0)
        diagonal == Abs(dr) = Abs(dc) /\ dr # 0
        clear == \A sq \in Between(from, to) : g[sq] = EMPTY_PIECE
    IN  CASE p.piece_type = PAWN ->
                /\ dr = (IF p.piece_color = WHITE THEN -1 ELSE 1)
                /\ dc \in {-1, 1}
          [] p.piece_type = ROOK -> straight /\ clear
          [] p.piece_type = QUEEN -> (straight \/ diagonal) /\ clear
          [] p.piece_type = KING -> from # to /\ Abs(dr) <= 1 /\ Abs(dc) <= 1
          [] OTHER -> FALSE

\* some piece of the other colour attacks a king of colour c
KingAttacked(g, c) ==
    \E k \in KingSquares(g, c) : \E sq \in Squares :
        g[sq].piece_color = Other(c) /\ RawAttacks(g, sq, k)

\* the colour has at most one king: "the king of colour c" means something
OneKing(g, c) == Cardinality(KingSquares(g, c)) <= 1

\* the grid a move leads to
GridAfter(i, m) ==
    LET r == apply_move(heap, boards[i], m) IN r.heap[r.board.grid]

\* C1: on every Board and for each colour C (with one king), every move of
\* the legal-move list valid_moves[C] leads, by apply_move, to a grid on
\* which no opposing piece attacks C's king.
C1_SelfCheckFilter ==
    \A i \in 1..Len(boards) : \A c \in Colors :
        OneKing(GridOf(i), c) =>
            \A m \in SeqRange(boards[i].valid_moves[c]) :
                ~KingAttacked(GridAfter(i, m), c)

\* C1 witness: a Board whose colour C is in check and has legal moves, so
\* that the filter has kept some candidates and dropped others
C1_Witness ==
    \E i \in 1..Len(boards) : \E c \in Colors :
        /\ boards[i].check_status[c]
        /\ boards[i].valid_moves[c] # <<>>
        /\ OneKing(GridOf(i), c)

\* the derived fields of Board i are the ones its grid gives
AgreesWithGrid(i) ==
    \A c \in Colors :
        /\ boards[i].valid_moves[c] = get_valid_moves_for_color(heap, boards[i], c)
        /\ boards[i].check_status[c] = is_check(heap, boards[i], c)
        /\ boards[i].checkmate_status[c] =
              (boards[i].check_status[c] /\ boards[i].valid_moves[c] = <<>>)
        /\ boards[i].stalemate_status[c] =
              (~boards[i].check_status[c] /\ boards[i].valid_moves[c] = <<>>)

\* C2: every Board the caller holds (from the default grid, from a custom
\* grid or from apply_move) has legal-move lists and check / checkmate /
\* stalemate flags that agree with its own grid.
C2_NoPartialBoard == \A i \in 1..Len(boards) : AgreesWithGrid(i)

\* C3: on every Board and for each colour C, checkmate[C] implies check[C]
\* and no legal move, stalemate[C] implies no check and no legal move, and
\* the two flags are never both true.
C3_MateStalemate ==
    \A i \in 1..Len(boards) : \A c \in Colors :
        /\ boards[i].checkmate_status[c] =>
              boards[i].check_status[c] /\ boards[i].valid_moves[c] = <<>>
        /\ boards[i].stalemate_status[c] =>
              ~boards[i].check_status[c] /\ boards[i].valid_moves[c] = <<>>
        /\ ~(boards[i].checkmate_status[c] /\ boards[i].stalemate_status[c])

\* C3 witness: a Board on which a colour is checkmated
C3_Witness ==
    \E i \in 1..Len(boards) : \E c \in Colors : boards[i].checkmate_status[c]

\* C4: get_best_move returns None exactly when the agent's colour has no
\* legal move on the Board it was given, and otherwise returns a move of
\* that Board's legal-move list of the agent's colour.
C4_NoneIffNoMoves ==
    best # None =>
        LET moves == boards[best.board].valid_moves[agent.color]
        IN  /\ (best.move = None) <=> (moves = <<>>)
            /\ best.move # None => best.move \in SeqRange(moves)

\* C4 witness: get_best_move has returned a move
C4_Witness == best # None /\ best.move # None

\* the move leaves the other colour checkmated on the derived child Board
Mates(i, m, c) ==
    LET r == apply_move(heap, boards[i], m)
    IN  compute_game_state(r.heap, r.board).checkmate_status[Other(c)]

\* C5: whenever the agent's colour has a legal move that leaves the opponent
\* checkmated, get_best_move at depth >= 1 returns a move that leaves the
\* opponent checkmated.
C5_MateInOne ==
    (best # None /\ agent.depth >= 1) =>
        LET i == best.board
            moves == SeqRange(boards[i].valid_moves[agent.color])
        IN  (\E m \in moves : Mates(i, m, agent.color)) =>
                (best.move # None /\ Mates(i, best.move, agent.color))

SetMax(S) == CHOOSE x \in S : \A y \in S : x >= y
SetMin(S) == CHOOSE x \in S : \A y \in S : x <= y

\* the Board a move leads to, with its state derived
DerivedChild(h, b, m) ==
    LET r == apply_move(h, b, m)
    IN  [heap |-> r.heap, board |-> compute_game_state(r.heap, r.board)]

\* The reference depth-limited minimax of a Board whose state is derived:
\* the evaluation at depth 0, the terminal score when the side to move has
\* no legal move, and otherwise the maximum (Maximizer) or minimum
\* (Minimizer) over all children at depth - 1.
RECURSIVE RefMinimax(_, _, _, _, _)
RefMinimax(self, h, b, maximizing, depth) ==
    LET side == IF maximizing THEN self.color ELSE Other(self.color)
        moves == b.valid_moves[side]
        vals == { LET ch == DerivedChild(h, b, moves[k])
                  IN  RefMinimax(self, ch.heap, ch.board, ~maximizing, depth - 1) :
                  k \in 1..Len(moves) }
    IN  IF depth = 0 THEN evaluate(self, h, b)
        ELSE IF moves = <<>>
        THEN IF b.check_status[side]
             THEN (IF maximizing THEN -inf ELSE inf)
             ELSE 0
        ELSE IF maximizing THEN SetMax(vals) ELSE SetMin(vals)

\* the reference value of root move m of Board i
RefValue(i, m) ==
    LET ch == DerivedChild(heap, boards[i], m)
    IN  RefMinimax(agent, ch.heap, ch.board, FALSE, agent.depth - 1)

\* C6: at depth >= 1 and with at least one legal root move, get_best_move
\* returns a move whose reference minimax value is maximal among all legal
\* root moves.
C6_RootFindsBest ==
    (/\ best # None
     /\ agent.depth >= 1
     /\ boards[best.board].valid_moves[agent.color] # <<>>) =>
        /\ best.move # None
        /\ \A m \in SeqRange(boards[best.board].valid_moves[agent.color]) :
                RefValue(best.board, best.move) >= RefValue(best.board, m)

C8_ApplyMoveGrid ==
    lastOp.op = "apply_move" =>
        LET m == lastOp.move
        IN  /\ lastOp.board = Len(boards)
            /\ \A sq \in Squares :
                GridOf(lastOp.board)[sq] =
                    IF sq = m.to_pos THEN m.piece
                    ELSE IF sq = m.from_pos THEN EMPTY_PIECE
                    ELSE GridOf(lastOp.src)[sq]

\* C8 witness: a move that is in no legal-move list has been applied
C8_Witness ==
    /\ lastOp.op = "apply_move"
    /\ lastOp.move \in OtherMoves
    /\ lastOp.move.from_pos # lastOp.move.to_pos
    /\ GridOf(lastOp.board) # GridOf(lastOp.src)

\* C9: for every Board and colour C (with one king at most), is_check(C)
\* is true iff some opposing piece's raw attack reachability includes C's
\* king square, and the check flag derived by compute_game_state is that
\* value; whether the attacker could legally move there plays no part.
C9_CheckIsRawAttack ==
    \A i \in 1..Len(boards) : \A c \in Colors :
        OneKing(GridOf(i), c) =>
            /\ is_check(heap, boards[i], c) <=> KingAttacked(GridOf(i), c)
            /\ boards[i].check_status[c] => KingAttacked(GridOf(i), c)
            /\ (lastOp.op = "compute_game_state" /\ lastOp.board = i) =>
                    (boards[i].check_status[c] <=> KingAttacked(GridOf(i), c))

\* C9 witness: a derived Board on which C is in check from a piece whose
\* move onto C's king is not legal (the piece is pinned)
C9_Witness ==
    \E i \in 1..Len(boards) : \E c \in Colors :
        /\ boards[i].check_status[c]
        /\ \E k \in KingSquares(GridOf(i), c) : \E sq \in Squares :
            /\ GridOf(i)[sq].piece_color = Other(c)
            /\ RawAttacks(GridOf(i), sq, k)
            /\ \A m \in SeqRange(boards[i].valid_moves[Other(c)]) :
                    ~(m.from_pos = sq /\ m.to_pos = k)
            /\ boards[i].valid_moves[Other(c)] # <<>>

\* C10: on a grid with no king of colour C, is_check(C) is false, and
\* compute_game_state derives check[C] and checkmate[C] false, a
\* legal-move list of C's own pieces for C and stalemate[C] from that list;
\* with several kings the derived flags are Booleans as well.
C10_MalformedGrids ==
    \A i \in 1..Len(boards) : \A c \in Colors :
        /\ KingSquares(GridOf(i), c) = {} =>
            /\ ~is_check(heap, boards[i], c)
            /\ ~boards[i].check_status[c]
            /\ ~boards[i].checkmate_status[c]
            /\ (lastOp.op = "compute_game_state" /\ lastOp.board = i) =>
                /\ boards[i].stalemate_status[c] <=> (boards[i].valid_moves[c] = <<>>)
                /\ \A m \in SeqRange(boards[i].valid_moves[c]) :
                    /\ m.piece = GridOf(i)[m.from_pos]
                    /\ m.piece.piece_color = c
                    /\ m.captured_piece = GridOf(i)[m.to_pos]
        /\ Cardinality(KingSquares(GridOf(i), c)) # 1 =>
            /\ boards[i].check_status[c] \in BOOLEAN
            /\ boards[i].checkmate_status[c] \in BOOLEAN
            /\ boards[i].stalemate_status[c] \in BOOLEAN

\* C10 witness: the state of a Board with no king of some colour has been
\* derived, and that colour has legal moves
C10_Witness ==
    /\ lastOp.op = "compute_game_state"
    /\ \E c \in Colors :
        /\ KingSquares(GridOf(lastOp.board), c) = {}
        /\ boards[lastOp.board].valid_moves[c] # <<>>

\* the Board whose legal-move lists the last step has derived:
\* compute_game_state is the one place that assigns valid_moves
JustDerived ==
    IF lastOp.op = "compute_game_state" THEN {lastOp.board} ELSE {}

\* the Board the last step has built, derived from a move or given its state
JustMade ==
    IF lastOp.op \in {"Board", "apply_move", "compute_game_state"}
    THEN {lastOp.board} ELSE {}

\* the moves of Board i's legal-move lists
LegalMoves(i) ==
    SeqRange(boards[i].valid_moves[WHITE]) \cup SeqRange(boards[i].valid_moves[BLACK])

\* C11: whenever the legal-move lists of a Board are derived, every move of
\* a rook or a queen in them runs along a row, a column or (queen) a
\* diagonal, and every square strictly between its source and its
\* destination is empty on that Board's grid.
C11_SlidingPathClear ==
    \A i \in JustDerived : \A m \in LegalMoves(i) :
        m.piece.piece_type \in {ROOK, QUEEN} =>
            /\ \/ m.to_pos[1] = m.from_pos[1]
               \/ m.to_pos[2] = m.from_pos[2]
               \/ Abs(m.to_pos[1] - m.from_pos[1]) = Abs(m.to_pos[2] - m.from_pos[2])
            /\ \A sq \in Between(m.from_pos, m.to_pos) :
                    GridOf(i)[sq] = EMPTY_PIECE

\* C11 witness: a Board with a legal sliding move over an empty square, and
\* a sliding piece one of whose lines is blocked by a piece short of an
\* empty square or an opposing piece
C11_Witness ==
    \E i \in 1..Len(boards) :
        /\ \E m \in LegalMoves(i) :
            /\ m.piece.piece_type \in {ROOK, QUEEN}
            /\ Between(m.from_pos, m.to_pos) # {}
        /\ boards[i].valid_moves[WHITE] \o boards[i].valid_moves[BLACK] # <<>>
        /\ \E from, to \in Squares :
            /\ GridOf(i)[from].piece_type = QUEEN
            /\ from # to
            /\ GridOf(i)[to].piece_color # GridOf(i)[from].piece_color
            /\ \/ to[1] = from[1]
               \/ to[2] = from[2]
               \/ Abs(to[1] - from[1]) = Abs(to[2] - from[2])
            /\ \E sq \in Between(from, to) : GridOf(i)[sq] # EMPTY_PIECE

\* the row step that takes a pawn of colour c toward the other side: White
\* starts on rows 2 and 3, Black on rows 0 and 1
Forward(c) == IF c = WHITE THEN -1 ELSE 1

\* C12: whenever the legal-move lists of a Board are derived, every pawn
\* move in them goes one row forward, and either stays in its column onto
\* an empty square or goes one column aside onto a square that holds a
\* piece of the other colour.
C12_PawnMoves ==
    \A i \in JustDerived : \A m \in LegalMoves(i) :
        m.piece.piece_type = PAWN =>
            LET dr == m.to_pos[1] - m.from_pos[1]
                dc == m.to_pos[2] - m.from_pos[2]
                target == GridOf(i)[m.to_pos]
            IN  /\ dr = Forward(m.piece.piece_color)
                /\ \/ dc = 0 /\ target = EMPTY_PIECE
                   \/ /\ dc \in {-1, 1}
                      /\ target.piece_type # EMPTY
                      /\ target.piece_color = Other(m.piece.piece_color)

\* C12 witness: a Board with a straight pawn move and a pawn capture in its
\* lists, and a pawn that faces an opposing piece it may not take
C12_Witness ==
    \E i \in 1..Len(boards) :
        /\ \E m \in LegalMoves(i) :
            m.piece.piece_type = PAWN /\ m.to_pos[2] = m.from_pos[2]
        /\ \E m \in LegalMoves(i) :
            m.piece.piece_type = PAWN /\ m.to_pos[2] # m.from_pos[2]
        /\ \E sq \in Squares :
            LET ahead == <<sq[1] + Forward(GridOf(i)[sq].piece_color), sq[2]>>
            IN  /\ GridOf(i)[sq].piece_type = PAWN
                /\ ahead \in Squares
                /\ GridOf(i)[ahead].piece_color = Other(GridOf(i)[sq].piece_color)

\* the squares a piece of the kind of p reaches from `from` on an empty
\* board, by the rules of the game
Reaches(p, from, to) ==
    LET dr == to[1] - from[1]
        dc == to[2] - from[2]
    IN  /\ from # to
        /\ CASE p.piece_type = PAWN ->
                    dr = Forward(p.piece_color) /\ Abs(dc) <= 1
             [] p.piece_type = ROOK -> dr = 0 \/ dc = 0
             [] p.piece_type = QUEEN -> dr = 0 \/ dc = 0 \/ Abs(dr) = Abs(dc)
             [] p.piece_type = KING -> Abs(dr) <= 1 /\ Abs(dc) <= 1
             [] OTHER -> FALSE

\* C13: whenever the legal-move lists of a Board are derived, every move of
\* colour C in them moves the piece of colour C that stands on its source
\* square to a square of the 4x4 board that a piece of its kind reaches
\* from there, and that square does not hold a piece of colour C.
C13_ReachableNotOwn ==
    \A i \in JustDerived : \A c \in Colors :
        \A m \in SeqRange(boards[i].valid_moves[c]) :
            /\ m.from_pos \in Squares
            /\ m.to_pos \in Squares
            /\ m.to_pos[1] \in 0..3 /\ m.to_pos[2] \in 0..3
            /\ m.piece = GridOf(i)[m.from_pos]
            /\ m.piece.piece_color = c
            /\ Reaches(m.piece, m.from_pos, m.to_pos)
            /\ GridOf(i)[m.to_pos].piece_color # c

\* C13 witness: a Board with legal moves on which a king stands next to a
\* piece of its own colour and a piece on the edge has displacements that
\* leave the board
C13_Witness ==
    \E i \in 1..Len(boards) : \E c \in Colors :
        /\ boards[i].valid_moves[c] # <<>>
        /\ \E k \in KingSquares(GridOf(i), c) : \E sq \in Squares :
            /\ Reaches(GridOf(i)[k], k, sq)
            /\ GridOf(i)[sq].piece_color = c
        /\ \E m \in SeqRange(boards[i].valid_moves[c]) :
            m.from_pos[1] \in {0, 3} \/ m.from_pos[2] \in {0, 3}

\* the colour that moves at a ply: the agent's at a Maximizer ply, the
\* other one at a Minimizer ply
PlySide(self, maximizing) ==
    IF maximizing THEN self.color ELSE Other(self.color)

\* the state of Board i has been derived from its grid
Computed(i) == boards[i] = compute_game_state(heap, boards[i])

\* C14: for an agent of either colour C, the ply of minimax on any Board
\* takes the side to move to be C when maximizing and the colour opposite
\* to C when minimizing, and the moves it enumerates and applies are moves
\* of pieces of that colour.
C14_PliesAlternateColours ==
    agent # None =>
        \A maximizing \in BOOLEAN :
            /\ current_color(agent, maximizing) = PlySide(agent, maximizing)
            /\ \A i \in 1..Len(boards) :
                \A m \in SeqRange(minimax_moves(agent, boards[i], maximizing)) :
                    m.piece.piece_color = PlySide(agent, maximizing)

\* C15: for every Board with derived state on which the side to move at a
\* ply has no legal move and is not in check, minimax returns 0 at every
\* remaining depth 0..MaxDepth.
C15_StalemateScoresZero ==
    agent # None =>
        \A i \in 1..Len(boards) : \A maximizing \in BOOLEAN :
            LET side == PlySide(agent, maximizing)
            IN  (/\ Computed(i)
                 /\ boards[i].valid_moves[side] = <<>>
                 /\ ~boards[i].check_status[side]) =>
                    \A d \in 0..MaxDepth :
                        minimax(agent, heap, boards[i], maximizing, -inf, inf, d) = 0

\* C16: for every Board with derived state on which the side to move at a
\* ply has no legal move and is in check, minimax returns +inf when that
\* side is the Minimizer and -inf when it is the Maximizer, at every
\* remaining depth 0..MaxDepth.
C16_CheckmateSentinel ==
    agent # None =>
        \A i \in 1..Len(boards) : \A maximizing \in BOOLEAN :
            LET side == PlySide(agent, maximizing)
            IN  (/\ Computed(i)
                 /\ boards[i].valid_moves[side] = <<>>
                 /\ boards[i].check_status[side]) =>
                    \A d \in 0..MaxDepth :
                        minimax(agent, heap, boards[i], maximizing, -inf, inf, d) =
                            (IF maximizing THEN -inf ELSE inf)

\* the colour-mirrored counterpart of a grid: ranks reflected, colours
\* exchanged
MirrorGrid(g) ==
    [sq \in Squares |->
        LET p == g[<<SIZE - 1 - sq[1], sq[2]>>]
        IN  IF p.piece_type = EMPTY THEN p
            ELSE Piece(Other(p.piece_color), p.piece_type)]

\* the score of a grid handed to Board(grid=...) and compute_game_state()
ScoreOfGrid(self, g) ==
    LET h1 == Append(heap, g)
        r == Board__init__(h1, <<Len(h1)>>, SIZE)
    IN  evaluate(self, r.heap, compute_game_state(r.heap, r.board))

Agents == { [depth |-> 1, color |-> c] : c \in Colors }

WithoutKings(i) ==
    LET g == [sq \in Squares |->
                IF GridOf(i)[sq].piece_type = KING THEN EMPTY_PIECE
                ELSE GridOf(i)[sq]]
        h1 == Append(heap, g)
        NonKing(p) == p.piece_type # KING
    IN  [heap |-> h1,
         board |-> [boards[i] EXCEPT
            !.grid = Len(h1),
            !.threat_scores = [c \in Colors |->
                SumSeq([k \in 1..Len(boards[i].threatened_pieces[c]) |->
                    IF NonKing(boards[i].threatened_pieces[c][k])
                    THEN value(boards[i].threatened_pieces[c][k]) ELSE 0])]]]

\* what the pieces other than kings contribute to the score of Board i:
\* presence, absence, centre and threatened-piece terms
NonKingScore(self, i) ==
    evaluate(self, WithoutKings(i).heap, WithoutKings(i).board)

\* C18: on every Board, as it is built, derived from a move or given its
\* state, the non-king contribution to the score is smaller in absolute
\* value than the value of a king, and a colour that has a king while the
\* other has none has the score on its side.
C18_KingDominates ==
    \A i \in JustMade : \A self \in Agents :
        /\ Abs(NonKingScore(self, i)) < PIECE_VALUES[KING]
        /\ (KingSquares(GridOf(i), BLACK) = {} /\
            Cardinality(KingSquares(GridOf(i), WHITE)) = 1) =>
                evaluate(self, heap, boards[i]) < 0
        /\ (KingSquares(GridOf(i), WHITE) = {} /\
            Cardinality(KingSquares(GridOf(i), BLACK)) = 1) =>
                evaluate(self, heap, boards[i]) > 0

\* C18 witness: a Board with derived state on which one colour has no king
\* and the other colour is well behind in the other pieces
C18_Witness ==
    \E i \in 1..Len(boards) : \E self \in Agents :
        /\ Computed(i)
        /\ KingSquares(GridOf(i), BLACK) = {}
        /\ NonKingScore(self, i) >= 2 * PIECE_VALUES[ROOK]
        /\ evaluate(self, heap, boards[i]) < 0

\* C19: with depth <= 0, get_best_move gives each root move the score
\* evaluate(child) of the Board apply_move leads to, and returns the move
\* that a search of depth 1, which scores the children in that way, returns.
C19_DepthZeroEvaluates ==
    (best # None /\ agent.depth <= 0) =>
        LET b == boards[best.board]
            moves == b.valid_moves[agent.color]
        IN  /\ (moves # <<>>) => best.move # None
            /\ \A m \in SeqRange(moves) :
                LET staged == apply_move(heap, b, m)
                IN  minimax(agent, staged.heap, staged.board, FALSE, -inf, inf,
                            agent.depth - 1)
                        = evaluate(agent, staged.heap, staged.board)
            /\ best.move = get_best_move([agent EXCEPT !.depth = 1], heap, b)

\* the rook moves of colour c on Board i that take a queen which no piece
\* can take back
FreeQueenCaptures(i, c) ==
    { m \in SeqRange(boards[i].valid_moves[c]) :
        /\ m.piece.piece_type = ROOK
        /\ m.captured_piece = Piece(Other(c), QUEEN)
        /\ LET ch == DerivedChild(heap, boards[i], m)
           IN  \A x \in SeqRange(ch.board.valid_moves[Other(c)]) :
                    x.to_pos # m.to_pos }

\* colour c has no other capture and no mating move on Board i
NoOtherTactics(i, c) ==
    \A m \in SeqRange(boards[i].valid_moves[c]) :
        /\ m.captured_piece.piece_type # EMPTY => m \in FreeQueenCaptures(i, c)
        /\ ~Mates(i, m, c)

\* C20: on a Board with derived state where a rook of the agent's colour
\* can take an undefended queen and the agent's colour has no other capture
\* and no mating move, get_best_move at depth >= 1 returns such a capture.
C20_FreeCapture ==
    (best # None /\ agent.depth >= 1) =>
        LET i == best.board
        IN  (/\ Computed(i)
             /\ FreeQueenCaptures(i, agent.color) # {}
             /\ NoOtherTactics(i, agent.color)) =>
                best.move \in FreeQueenCaptures(i, agent.color)

\* the free-capture property for an agent that keeps its default colour
FreeCaptureBlack == agent # None /\ agent.color = BLACK => C20_FreeCapture

\* C21: a Board on the canonical starting grid has check, checkmate and
\* stalemate false for both colours, as built and after compute_game_state;
\* the flags are the ones its grid gives: no king is attacked on the
\* starting grid and compute_game_state finds a legal move for each colour.
C21_StartFlagsFalse ==
    \A i \in JustMade :
        GridOf(i) = INITIAL_BOARD_STATE =>
            LET derived == compute_game_state(heap, boards[i])
            IN  \A c \in Colors :
                    /\ ~boards[i].check_status[c]
                    /\ ~boards[i].checkmate_status[c]
                    /\ ~boards[i].stalemate_status[c]
                    /\ derived.check_status[c] = boards[i].check_status[c]
                    /\ derived.checkmate_status[c] = boards[i].checkmate_status[c]
                    /\ derived.stalemate_status[c] = boards[i].stalemate_status[c]
                    /\ ~KingAttacked(GridOf(i), c)
                    /\ derived.valid_moves[c] # <<>>

\* C21 witness: compute_game_state has run on the starting Board and has
\* found moves for both colours
C21_Witness ==
    /\ lastOp.op = "compute_game_state"
    /\ GridOf(lastOp.board) = INITIAL_BOARD_STATE
    /\ \A c \in Colors : boards[lastOp.board].valid_moves[c] # <<>>

\* minimax with the `beta <= alpha` tests of its two loops removed: every
\* move of a ply is searched, and alpha and beta play no part any more
RECURSIVE NoCutoff(_, _, _, _, _, _, _)
NoCutoff(self, h, board, maximizing_player, alpha, beta, depth) ==
    IF depth = 0 THEN evaluate(self, h, board)
    ELSE IF board.valid_moves[current_color(self, maximizing_player)] = <<>>
    THEN IF board.check_status[current_color(self, maximizing_player)]
         THEN (IF maximizing_player THEN -inf ELSE inf)
         ELSE 0
    ELSE IF board.valid_moves[opponent_color(self, maximizing_player)] = <<>>
    THEN IF board.check_status[opponent_color(self, maximizing_player)]
         THEN (IF maximizing_player THEN inf ELSE -inf)
         ELSE 0
    ELSE LET moves == minimax_moves(self, board, maximizing_player)
             Child(k) ==
                LET staged == apply_move(h, board, moves[k])
                    mated == IF maximizing_player THEN WHITE ELSE self.color
                IN  IF /\ staged.board.valid_moves[mated] = <<>>
                       /\ staged.board.check_status[mated]
                    THEN (IF maximizing_player THEN inf ELSE -inf)
                    ELSE NoCutoff(self, staged.heap, staged.board,
                                  ~maximizing_player, -inf, inf, depth - 1)
             evals == { Child(k) : k \in 1..Len(moves) }
         IN  IF maximizing_player THEN SetMax(evals) ELSE SetMin(evals)

\* C22: on the Board get_best_move was called with, for both roles and
\* every depth 0..MaxDepth, minimax with the window (-inf, inf) returns the
\* value of the same recursion without the cutoffs, and so does the call
\* that scores each root move.
C22_PruningSound ==
    lastOp.op = "get_best_move" =>
        LET i == lastOp.board
        IN  /\ \A maximizing \in BOOLEAN : \A d \in 0..MaxDepth :
                    minimax(agent, heap, boards[i], maximizing, -inf, inf, d) =
                        NoCutoff(agent, heap, boards[i], maximizing, -inf, inf, d)
            /\ \A m \in SeqRange(boards[i].valid_moves[agent.color]) :
                    LET staged == apply_move(heap, boards[i], m)
                    IN  minimax(agent, staged.heap, staged.board, FALSE, -inf, inf,
                                agent.depth - 1) =
                            NoCutoff(agent, staged.heap, staged.board, FALSE,
                                     -inf, inf, agent.depth - 1)

\* C22 witness: get_best_move has searched a Board on which both colours
\* have several moves and the Maximizer's first move is not its best one
C22_Witness ==
    /\ lastOp.op = "get_best_move"
    /\ LET b == boards[lastOp.board]
           first == apply_move(heap, b, b.valid_moves[agent.color][1])
       IN  /\ Len(b.valid_moves[WHITE]) > 1
           /\ Len(b.valid_moves[BLACK]) > 1
           /\ minimax(agent, heap, b, TRUE, -inf, inf, 1) >
                  evaluate(agent, first.heap, first.board)

\* the captures-first key: capturedValue * 10 - moverValue for a move onto a
\* piece, 0 for a move onto an empty square
CapturesFirstKey(m) ==
    IF m.captured_piece.piece_type # EMPTY
    THEN value(m.captured_piece) * 10 - value(m.piece)
    ELSE 0

\* the position of move m in the list ms
IndexIn(ms, m) == CHOOSE k \in 1..Len(ms) : ms[k] = m

\* sorted is ms in descending order of the captures-first key, moves of
\* equal key in the order they have in ms
SortedCapturesFirst(sorted, ms) ==
    /\ Len(sorted) = Len(ms)
    /\ SeqRange(sorted) = SeqRange(ms)
    /\ \A a, b \in 1..Len(sorted) :
            a < b =>
                \/ CapturesFirstKey(sorted[a]) > CapturesFirstKey(sorted[b])
                \/ /\ CapturesFirstKey(sorted[a]) = CapturesFirstKey(sorted[b])
                   /\ IndexIn(ms, sorted[a]) < IndexIn(ms, sorted[b])

\* C23: whenever the legal-move lists of a Board are derived, order_moves
\* returns each list in descending order of the captures-first key (0 for
\* quiet moves), moves of equal key keeping their discovery order.
C23_OrderCapturesFirst ==
    \A i \in JustDerived : \A c \in Colors : \A self \in Agents :
        SortedCapturesFirst(order_moves(self, boards[i], boards[i].valid_moves[c]),
                            boards[i].valid_moves[c])

\* C24: the list of moves a ply enumerates and applies is in the order
\* order_moves gives it: at the root, and at a Maximizer and a Minimizer
\* ply of minimax on every Board the agent can be handed.
C24_SortedAtEveryPly ==
    agent # None =>
        \A i \in 1..Len(boards) :
            /\ order_moves(agent, boards[i], boards[i].valid_moves[agent.color]) =
                    order_moves(agent, boards[i],
                        order_moves(agent, boards[i], boards[i].valid_moves[agent.color]))
            /\ \A maximizing \in BOOLEAN :
                    minimax_moves(agent, boards[i], maximizing) =
                        order_moves(agent, boards[i],
                                    minimax_moves(agent, boards[i], maximizing))

\* the score get_best_move gives root move m of Board i
RootScore(i, m) ==
    LET staged == apply_move(heap, boards[i], m)
    IN  IF /\ staged.board.valid_moves[WHITE] = <<>>
           /\ staged.board.check_status[WHITE]
        THEN inf
        ELSE minimax(agent, staged.heap, staged.board, FALSE, -inf, inf,
                     agent.depth - 1)

\* C25: the move get_best_move returns is, in the ordered root list, the
\* first of the moves whose score is the greatest.
C25_RootTieBreak ==
    (lastOp.op = "get_best_move" /\ best.move # None) =>
        LET i == best.board
            ordered == order_moves(agent, boards[i], boards[i].valid_moves[agent.color])
            top == SetMax({ RootScore(i, ordered[k]) : k \in 1..Len(ordered) })
            k0 == IndexIn(ordered, best.move)
        IN  /\ RootScore(i, best.move) = top
            /\ \A k \in 1..(k0 - 1) : RootScore(i, ordered[k]) < top

\* C25 witness: get_best_move has returned a move whose score a later move
\* of the ordered root list equals
C25_Witness ==
    /\ lastOp.op = "get_best_move"
    /\ best.move # None
    /\ LET i == best.board
           ordered == order_moves(agent, boards[i], boards[i].valid_moves[agent.color])
       IN  \E k \in 1..Len(ordered) :
                /\ k > IndexIn(ordered, best.move)
                /\ RootScore(i, ordered[k]) = RootScore(i, best.move)

\* the squares of Board i holding a piece opposed to colour c on which at
\* least one move of c's legal-move list lands
ThreatenedBy(i, c) ==
    { sq \in Squares :
        /\ GridOf(i)[sq].piece_type # EMPTY
        /\ GridOf(i)[sq].piece_color = Other(c)
        /\ \E m \in SeqRange(boards[i].valid_moves[c]) : m.to_pos = sq }

\* the material on a set of squares of Board i
ValueOn(i, S) ==
    SumSeq([k \in 1..(SIZE * SIZE) |->
        IF SqOf(k - 1) \in S THEN value(GridOf(i)[SqOf(k - 1)]) ELSE 0])

\* C26: whenever compute_game_state has derived the state of a Board, for
\* each colour c the threatened pieces recorded for the other colour are the
\* pieces on the squares c's legal moves take, one entry a square; the
\* threat score is the sum of their values; and evaluate adds that score to
\* c's side of its difference (Black's side counts positive).
C26_ThreatAccounting ==
    \A i \in JustDerived :
        LET b == boards[i]
            unthreatened == [b EXCEPT !.threat_scores = [c \in Colors |-> 0]]
        IN  /\ \A c \in Colors :
                LET T == ThreatenedBy(i, c)
                    recorded == b.threatened_pieces[Other(c)]
                IN  /\ Len(recorded) = Cardinality(T)
                    /\ \A p \in SeqRange(recorded) \cup { GridOf(i)[sq] : sq \in T } :
                            Cardinality({ k \in 1..Len(recorded) : recorded[k] = p }) =
                                Cardinality({ sq \in T : GridOf(i)[sq] = p })
                    /\ b.threat_scores[Other(c)] = ValueOn(i, T)
            /\ \A self \in Agents :
                    evaluate(self, heap, b) =
                        evaluate(self, heap, unthreatened)
                            + ValueOn(i, ThreatenedBy(i, BLACK))
                            - ValueOn(i, ThreatenedBy(i, WHITE))

\* C26 witness: a Board with derived state on which two legal moves of one
\* colour land on the same piece, and that piece is counted once
C26_Witness ==
    \E i \in JustDerived : \E c \in Colors :
        /\ \E m1, m2 \in SeqRange(boards[i].valid_moves[c]) :
                /\ m1 # m2
                /\ m1.to_pos = m2.to_pos
                /\ m1.captured_piece.piece_type # EMPTY
        /\ Len(boards[i].threatened_pieces[Other(c)]) = Cardinality(ThreatenedBy(i, c))

\* the moves of colour c the rules of the game allow on Board i: the piece
\* on `from` reaches `to`, `to` does not hold a piece of colour c, a rook or
\* a queen crosses empty squares only, a pawn goes straight onto an empty
\* square or aside onto an opposing piece, and on the grid after the move no
\* king of colour c is attacked
RuleMoves(i, c) ==
    LET g == GridOf(i)
        After(from, to) == [g EXCEPT ![to] = g[from], ![from] = EMPTY_PIECE]
        Allowed(from, to) ==
            /\ g[from].piece_type # EMPTY
            /\ g[from].piece_color = c
            /\ Reaches(g[from], from, to)
            /\ g[to].piece_color # c
            /\ g[from].piece_type \in {ROOK, QUEEN} =>
                    \A sq \in Between(from, to) : g[sq] = EMPTY_PIECE
            /\ g[from].piece_type = PAWN =>
                    IF to[2] = from[2] THEN g[to] = EMPTY_PIECE
                    ELSE g[to].piece_type # EMPTY
            /\ ~KingAttacked(After(from, to), c)
    IN  { Move(g[from], from, to, g[to]) :
            <<from, to>> \in { ft \in Squares \X Squares : Allowed(ft[1], ft[2]) } }

\* C28: whenever the legal-move lists of a Board are derived, the list of
\* each colour holds every move the rules allow that colour on the Board's
\* grid, and holds no move twice.
C28_MoveGenerationComplete ==
    \A i \in JustDerived : \A c \in Colors :
        /\ RuleMoves(i, c) \subseteq SeqRange(boards[i].valid_moves[c])
        /\ Cardinality(SeqRange(boards[i].valid_moves[c])) = Len(boards[i].valid_moves[c])

\* C28 witness: a Board with derived state whose lists hold a move across
\* the whole board and a king move, while a king move onto an empty square
\* next to it is not allowed by the rules and the list of that colour is
\* exactly the allowed moves
C28_Witness ==
    \E i \in JustDerived :
        /\ \E m \in LegalMoves(i) :
                /\ m.piece.piece_type \in {ROOK, QUEEN}
                /\ Max(Abs(m.to_pos[1] - m.from_pos[1]),
                       Abs(m.to_pos[2] - m.from_pos[2])) = SIZE - 1
        /\ \E m \in LegalMoves(i) : m.piece.piece_type = KING
        /\ \E c \in Colors :
                /\ RuleMoves(i, c) = SeqRange(boards[i].valid_moves[c])
                /\ \E from, to \in Squares :
                        /\ GridOf(i)[from].piece_color = c
                        /\ GridOf(i)[from].piece_type # EMPTY
                        /\ Reaches(GridOf(i)[from], from, to)
                        /\ GridOf(i)[to] = EMPTY_PIECE
                        /\ GridOf(i)[from].piece_type = KING
                        /\ Move(GridOf(i)[from], from, to, EMPTY_PIECE)
                                \notin RuleMoves(i, c)

\* C27: in a game from the starting grid in which White and Black in turn
\* play a move of the legal-move list of the current Board, its state
\* freshly derived, every Board has exactly one king of each colour.
C27_KingsStay ==
    \A i \in 1..Len(boards) : \A c \in Colors :
        Cardinality(KingSquares(GridOf(i), c)) = 1

\* C27 witness: a game in which a king was attacked, its side answered, and
\* a piece has been taken
C27_Witness ==
    /\ lastOp.op \in {"white_turn", "black_turn", "agent_turn"}
    /\ Len(boards) > 2
    /\ \E i \in 1..(Len(boards) - 1) : \E c \in Colors : KingAttacked(GridOf(i), c)
    /\ lastOp.move.captured_piece.piece_type # EMPTY

\* C30: a turn of the agent in a game that is not over applies one move of
\* Black's legal-move list to the current Board and passes the turn to
\* White, and a turn of White never follows a turn of White.
C30_TurnsAlternate ==
    [][ /\ lastOp'.op = "agent_turn" =>
            LET i == Len(boards)
            IN  /\ Len(boards') = i + 1
                /\ best'.move \in SeqRange(boards[i].valid_moves[BLACK])
                /\ best'.move.piece.piece_color = BLACK
                /\ heap'[boards'[i + 1].grid] = GridAfter(i, best'.move)
                /\ turn' = WHITE
        /\ lastOp'.op = "white_turn" => lastOp.op # "white_turn"
      ]_vars

\* C30 witness: White has moved, the agent has answered with a move, and it
\* is White's turn again
C30_Witness ==
    /\ lastOp.op = "agent_turn"
    /\ Len(boards) = 3
    /\ lastOp.move # None
    /\ turn = WHITE

\* a call of minimax that reaches one of its loops: depth is not 0 and
\* both colours have moves on the board
Recurses(self, board, maximizing_player, depth) ==
    /\ depth # 0
    /\ board.valid_moves[current_color(self, maximizing_player)] # <<>>
    /\ board.valid_moves[opponent_color(self, maximizing_player)] # <<>>

\* the calls a call of minimax makes when no cutoff shortens its loop, as
\* <<heap, board, maximizing_player, depth>>
CallsOf(self, h, board, maximizing_player, depth) ==
    IF ~Recurses(self, board, maximizing_player, depth) THEN {}
    ELSE LET moves == minimax_moves(self, board, maximizing_player)
             mated == IF maximizing_player THEN WHITE ELSE self.color
             staged(k) == apply_move(h, board, moves[k])
         IN  { <<staged(k).heap, staged(k).board, ~maximizing_player, next_depth(depth)>> :
                 k \in { j \in 1..Len(moves) :
                            ~(/\ staged(j).board.valid_moves[mated] = <<>>
                              /\ staged(j).board.check_status[mated]) } }

\* the number of plies of calls below a call of minimax
RECURSIVE PliesBelow(_, _, _, _, _)
PliesBelow(self, h, board, maximizing_player, depth) ==
    LET calls == CallsOf(self, h, board, maximizing_player, depth)
    IN  IF calls = {} THEN 0
        ELSE 1 + SetMax({ PliesBelow(self, c[1], c[2], c[3], c[4]) : c \in calls })

\* every call below a call of minimax is given a remaining depth that is
\* smaller than its caller's and not negative
RECURSIVE DepthDecreases(_, _, _, _, _)
DepthDecreases(self, h, board, maximizing_player, depth) ==
    \A c \in CallsOf(self, h, board, maximizing_player, depth) :
        /\ c[4] < depth
        /\ c[4] >= 0
        /\ DepthDecreases(self, c[1], c[2], c[3], c[4])

\* C29: get_best_move, called with a depth of 1 or more, returns; the call
\* of minimax for each root move has at most depth - 1 plies of calls below
\* it; and in every call tree of minimax, from a root move or from the
\* Board itself in either role at a depth 1..MaxDepth, each call is given a
\* smaller remaining depth than its caller, never a negative one.
C29_SearchTerminates ==
    (lastOp.op = "get_best_move" /\ agent.depth >= 1) =>
        LET i == lastOp.board
        IN  /\ best.board = i
            /\ best.move \in SeqRange(boards[i].valid_moves[agent.color]) \cup {None}
            /\ \A m \in SeqRange(boards[i].valid_moves[agent.color]) :
                    LET staged == apply_move(heap, boards[i], m)
                    IN  /\ next_depth(agent.depth) >= 0
                        /\ next_depth(agent.depth) < agent.depth
                        /\ PliesBelow(agent, staged.heap, staged.board, FALSE,
                                      next_depth(agent.depth)) <= agent.depth - 1
                        /\ DepthDecreases(agent, staged.heap, staged.board, FALSE,
                                          next_depth(agent.depth))
            /\ \A maximizing \in BOOLEAN : \A d \in 1..MaxDepth :
                    /\ PliesBelow(agent, heap, boards[i], maximizing, d) <= d
                    /\ DepthDecreases(agent, heap, boards[i], maximizing, d)

\* C29 witness: get_best_move has returned a move at a depth above 1 on a
\* Board on which a call of minimax makes calls
C29_Witness ==
    /\ lastOp.op = "get_best_move"
    /\ agent.depth > 1
    /\ best.move # None
    /\ PliesBelow(agent, heap, boards[lastOp.board], TRUE, agent.depth) > 0

====
